---- MODULE Spec2Model ----
(***************************************************************************)
(* Retention manager and background-task creation of opencti-graphql       *)
(* (src/manager/retentionManager.ts).                                      *)
(*                                                                         *)
(* The retention part is a state machine: API instances schedule           *)
(* retentionHandler under a lease lock; the handler walks the retention    *)
(* rules, fetches one page of candidates per rule, deletes them one by one *)
(* and patches the rule.  Each await of the code is one step.              *)
(***************************************************************************)
EXTENDS Integers, Sequences, FiniteSets, TLC

\* ------------------------------------------------------------------ bounds
NumElems == 3      \* elements in the store at start
NumRules == 2      \* retention rules returned by findRetentionRulesToExecute
MaxCycles == 2     \* handler executions started (the cron never stops)
MaxActions == 2    \* length of input.actions
MaxIds == 2        \* length of input.ids
MaxFilters == 2    \* length of the filters of input.filters

\* retention_manager:batch_size (line 25), configured small
RETENTION_BATCH_SIZE == 2

Procs == {"api1", "api2"}
ElemIds == 1..NumElems
RuleIds == 1..NumRules
Scopes == {"knowledge", "file", "workbench"}
UnsupportedScope == "other"
NoLock == "none"

VARIABLES
  started,      \* API instances whose retention manager is started
  elems,        \* id -> the node the store returns for it
  poison,       \* ids whose deletion throws on every attempt
  store,        \* ids still stored (all match every supported rule's query)
  rules,        \* the retention rules, in findAll order
  lockHolder,   \* instance holding the lease of RETENTION_MANAGER_KEY
  clock,        \* handler executions started so far; serves as now()
  hnd,          \* per instance: the handler's control state and locals
  obs,          \* per instance: what the running cycle did (observation only)
  lastRun,      \* per rule: the run that patched it last (observation only)
  prevRun,      \* per rule: the run that patched it before (observation only)
  req,          \* the createListTask call: its arguments, position and task
  index,        \* INDEX_INTERNAL_OBJECTS: the records elIndex wrote
  audit         \* the events publishUserAction published

taskVars == <<req, index, audit>>

vars == <<started, elems, poison, store, rules, lockHolder, clock, hnd, obs, lastRun,
          prevRun, req, index, audit>>

\* ------------------------------------------------------------ store nodes
\* FileEdge node views: uploadStatus and the statuses of the associated works
Profiles == {"ready", "uploading", "working", "poisoned"}

NodeOf(e, profile) ==
  [id |-> e,
   uploadStatus |-> IF profile = "uploading" THEN "progress" ELSE "complete",
   works |-> IF profile = "working" THEN <<"complete", "progress">>
             ELSE IF profile = "uploading" THEN <<>> ELSE <<"complete">>]

Min(a, b) == IF a < b THEN a ELSE b

RECURSIVE SortedSeq(_)
SortedSeq(S) ==
  IF S = {} THEN <<>>
  ELSE LET m == CHOOSE x \in S : \A y \in S : x <= y
       IN <<m>> \o SortedSeq(S \ {m})

\* elPaginate / paginatedForPathWithEnrichment with { first }: the first
\* `first` matches in the store's order, and the count of all matches
Paginate(st, first) ==
  LET ordered == SortedSeq(st)
  IN [edges |-> [i \in 1..Min(first, Len(ordered)) |-> elems[ordered[i]]],
      pageInfo |-> [globalCount |-> Cardinality(st)]]

\* (e.node.works ?? []).every((work) => work?.status === 'complete')
WorksComplete(node) == \A i \in 1..Len(node.works) : node.works[i] = "complete"

Deletable(node) == node.uploadStatus = "complete" /\ WorksComplete(node)

\* getElementsToDelete, lines 37-68
ScopeExists(scope) == scope \in {"knowledge", "file", "workbench"}

\* variant: the count is taken from the filtered page
GetElementsToDelete_PageCount(scope, st) ==
  LET result == Paginate(st, RETENTION_BATCH_SIZE)
      kept == IF scope = "file" \/ scope = "knowledge"
              THEN SelectSeq(result.edges, Deletable) ELSE result.edges
  IN [edges |-> kept, pageInfo |-> [globalCount |-> Len(kept)]]

GetElementsToDelete(scope, st) ==
  LET result == Paginate(st, RETENTION_BATCH_SIZE)
  IN IF scope = "file" \/ scope = "knowledge"
     THEN [result EXCEPT !.edges = SelectSeq(result.edges, Deletable)]
     ELSE result

\* deleteElement, lines 27-35: deleteElementById / deleteFile throw for a
\* poisoned element; the scope is one of the three here
DeleteThrows(scope, node) == ~ScopeExists(scope) \/ node.id \in poison

\* variant: the matches are counted again after the deletions
RulePatch_RecountAfter(h, now) ==
  [last_execution_date |-> now,
   remaining_count |-> Cardinality(store),
   last_deleted_count |-> Len(h.elements)]

\* the patch of executeProcessing, lines 90-94
RulePatch(h, now) ==
  [last_execution_date |-> now,
   remaining_count |-> h.remaining,
   last_deleted_count |-> Len(h.elements)]

\* variant: the signal is never polled
ThrowIfAborted_Never(signal) == FALSE

\* lock.signal.throwIfAborted(), line 105
ThrowIfAborted(signal) == signal

\* ------------------------------------------------------------ handler state
IdleHandler ==
  [pc |-> "idle", signal |-> FALSE, index |-> 1, elements |-> <<>>, pos |-> 1,
   remaining |-> 0, outcome |-> "none", cycle |-> 0]

NoCall == [scope |-> "none"]
NoRun == [cycle |-> 0]

FreshObs ==
  [events |-> {}, cause |-> "none", causeAt |-> 0, abortSeenAt |-> 0,
   atFetch |-> {}, attempts |-> 0, ok |-> 0, failed |-> 0, firstFail |-> 0,
   lastCall |-> NoCall]

\* the handler promise settles: the scheduler releases the lock it still holds
Release(p) == IF lockHolder = p THEN NoLock ELSE lockHolder

Settled(p) == IF hnd'[p].pc = "idle" THEN Release(p) ELSE lockHolder

\* variant: the rule loop swallows the exception and goes on with the next rule
Rejected_Swallowed(h, error) == [h EXCEPT !.pc = "loop", !.index = h.index + 1]

\* an exception leaves retentionHandler (no try/catch in lines 98-110 nor
\* around lines 74 and 95)
Rejected(h, error) == [h EXCEPT !.pc = "idle", !.outcome = error]

\* variant: the loop is left with a break and the handler returns
OnAbort_Break(h) == [h EXCEPT !.pc = "idle", !.outcome = "returned"]

\* line 105: throwIfAborted throws the signal's reason, an AbortError
OnAbort(h) == Rejected(h, "AbortError")

\* variant: no try/catch around the deletion
DeleteCaught_Rethrow(h) == Rejected(h, "Error")

\* variant: the catch leaves the element loop
DeleteCaught_SkipRest(h) == [h EXCEPT !.pos = Len(h.elements) + 1]

\* the catch of lines 85-87: log and go on with the next element
DeleteCaught(h) == [h EXCEPT !.pos = h.pos + 1]

\* ------------------------------------------------------------------ Init
RuleInit(scope) ==
  [scope |-> scope, last_execution_date |-> 0, remaining_count |-> 0,
   last_deleted_count |-> 0]

\* the store holds elements of profiles f, the rules have scopes g
RetentionInit(f, g) ==
  /\ elems = [e \in ElemIds |-> NodeOf(e, f[e])]
  /\ poison = {e \in ElemIds : f[e] = "poisoned"}
  /\ store = ElemIds
  /\ rules = [k \in RuleIds |-> RuleInit(g[k])]
  /\ lockHolder = NoLock
  /\ clock = 0
  /\ hnd = [p \in Procs |-> IdleHandler]
  /\ obs = [p \in Procs |-> FreshObs]
  /\ lastRun = [k \in RuleIds |-> NoRun]
  /\ prevRun = [k \in RuleIds |-> NoRun]

\* the supported rules of a deployment query one pool of elements
DataInit(profiles, scopes) ==
  \E f \in [ElemIds -> profiles] : \E s \in scopes :
    \E g \in [RuleIds -> {s, UnsupportedScope}] : RetentionInit(f, g)

\* no background task is being created
NoTaskCall ==
  /\ req = [pc |-> "none"]
  /\ index = {}
  /\ audit = <<>>

\* one API instance runs the manager
Init ==
  /\ started = {"api1"}
  /\ DataInit(Profiles, Scopes)
  /\ NoTaskCall

\* every API instance starts its retention manager (lines 21-22)
LockInit ==
  /\ started = Procs
  /\ DataInit(Profiles, Scopes)
  /\ NoTaskCall

\* --------------------------------------------------------------- actions
\* cronSchedulerHandler, lines 116-121: the interval fires on an instance
\* that is not running the handler, the lock is free and is taken
Schedule(p) ==
  /\ p \in started
  /\ hnd[p].pc = "idle"
  /\ lockHolder = NoLock
  /\ clock < MaxCycles
  /\ lockHolder' = p
  /\ clock' = clock + 1
  /\ hnd' = [hnd EXCEPT ![p] = [IdleHandler EXCEPT !.pc = "loop", !.cycle = clock + 1]]
  /\ obs' = [obs EXCEPT ![p] = FreshObs]
  /\ UNCHANGED taskVars
  /\ UNCHANGED <<started, elems, poison, store, rules, lastRun, prevRun>>

\* the lease runs out (nobody calls extend()): the lock is free again and
\* the holder's signal is aborted
LeaseLost(p) ==
  /\ lockHolder = p
  /\ hnd[p].pc # "idle"
  /\ lockHolder' = NoLock
  /\ hnd' = [hnd EXCEPT ![p].signal = TRUE]
  /\ UNCHANGED taskVars
  /\ UNCHANGED <<started, elems, poison, store, rules, clock, obs, lastRun, prevRun>>

AtRule(p) ==
  /\ p \in started
  /\ hnd[p].pc = "loop"
  /\ hnd[p].index <= Len(rules)

SeenAbort(p) ==
  IF hnd[p].signal /\ obs[p].abortSeenAt = 0 THEN hnd[p].index ELSE obs[p].abortSeenAt

\* line 105 throws the abort reason
RuleAbort(p) ==
  /\ AtRule(p)
  /\ ThrowIfAborted(hnd[p].signal)
  /\ hnd' = [hnd EXCEPT ![p] = OnAbort(hnd[p])]
  /\ obs' = [obs EXCEPT ![p].abortSeenAt = SeenAbort(p),
                        ![p].cause = "abort", ![p].causeAt = hnd[p].index]
  /\ lockHolder' = Settled(p)
  /\ UNCHANGED taskVars
  /\ UNCHANGED <<started, elems, poison, store, rules, clock, lastRun, prevRun>>

\* lines 105-107: not aborted, executeProcessing starts for the rule
RuleStart(p) ==
  /\ AtRule(p)
  /\ ~ThrowIfAborted(hnd[p].signal)
  /\ hnd' = [hnd EXCEPT ![p].pc = "fetch"]
  /\ obs' = [obs EXCEPT ![p].abortSeenAt = SeenAbort(p)]
  /\ UNCHANGED taskVars
  /\ UNCHANGED <<started, elems, poison, store, rules, lockHolder, clock, lastRun, prevRun>>

\* line 104: the loop is over, the handler returns
HandlerReturn(p) ==
  /\ p \in started
  /\ hnd[p].pc = "loop"
  /\ hnd[p].index > Len(rules)
  /\ hnd' = [hnd EXCEPT ![p].pc = "idle", ![p].outcome = "returned"]
  /\ lockHolder' = Release(p)
  /\ UNCHANGED taskVars
  /\ UNCHANGED <<started, elems, poison, store, rules, clock, obs, lastRun, prevRun>>

AtFetch(p) ==
  /\ p \in started
  /\ hnd[p].pc = "fetch"

\* lines 74-77: the page is fetched and filtered
Fetch(p) ==
  /\ AtFetch(p)
  /\ ScopeExists(rules[hnd[p].index].scope)
  /\ LET result == GetElementsToDelete(rules[hnd[p].index].scope, store)
     IN hnd' = [hnd EXCEPT ![p].pc = "delete",
                           ![p].elements = result.edges,
                           ![p].remaining = result.pageInfo.globalCount,
                           ![p].pos = 1]
  /\ obs' = [obs EXCEPT ![p].events = @ \cup {<<hnd[p].index, "fetch">>},
                        ![p].atFetch = store,
                        ![p].attempts = 0, ![p].ok = 0, ![p].failed = 0,
                        ![p].firstFail = 0]
  /\ UNCHANGED taskVars
  /\ UNCHANGED <<started, elems, poison, store, rules, lockHolder, clock, lastRun, prevRun>>

FetchThrew(p) ==
  /\ hnd' = [hnd EXCEPT ![p] = Rejected(hnd[p], "Error")]
  /\ obs' = [obs EXCEPT ![p].cause = "fetch", ![p].causeAt = hnd[p].index]
  /\ lockHolder' = Settled(p)
  /\ UNCHANGED taskVars
  /\ UNCHANGED <<started, elems, poison, store, rules, clock, lastRun, prevRun>>

\* line 60: the scope is none of the three
FetchScopeError(p) ==
  /\ AtFetch(p)
  /\ ~ScopeExists(rules[hnd[p].index].scope)
  /\ FetchThrew(p)

\* lines 42, 44, 52: the store's search throws
FetchStoreError(p) ==
  /\ AtFetch(p)
  /\ ScopeExists(rules[hnd[p].index].scope)
  /\ FetchThrew(p)

AtElement(p) ==
  /\ p \in started
  /\ hnd[p].pc = "delete"
  /\ hnd[p].pos <= Len(hnd[p].elements)

Called(p) ==
  [scope |-> rules[hnd[p].index].scope,
   uploadStatus |-> hnd[p].elements[hnd[p].pos].uploadStatus,
   works |-> hnd[p].elements[hnd[p].pos].works]

\* line 83 succeeds: the element is gone (a no-op on one already gone)
DeleteOk(p) ==
  /\ AtElement(p)
  /\ ~DeleteThrows(rules[hnd[p].index].scope, hnd[p].elements[hnd[p].pos])
  /\ store' = store \ {hnd[p].elements[hnd[p].pos].id}
  /\ hnd' = [hnd EXCEPT ![p].pos = @ + 1]
  /\ obs' = [obs EXCEPT ![p].events = @ \cup {<<hnd[p].index, "delete">>},
                        ![p].attempts = @ + 1, ![p].ok = @ + 1,
                        ![p].lastCall = Called(p)]
  /\ UNCHANGED taskVars
  /\ UNCHANGED <<started, elems, poison, rules, lockHolder, clock, lastRun, prevRun>>

\* line 83 throws (a poisoned element, or one another handler deleted)
DeleteFail(p) ==
  /\ AtElement(p)
  /\ \/ DeleteThrows(rules[hnd[p].index].scope, hnd[p].elements[hnd[p].pos])
     \/ hnd[p].elements[hnd[p].pos].id \notin store
  /\ hnd' = [hnd EXCEPT ![p] = DeleteCaught(hnd[p])]
  /\ obs' = [obs EXCEPT ![p].events = @ \cup {<<hnd[p].index, "delete">>},
                        ![p].attempts = @ + 1, ![p].failed = @ + 1,
                        ![p].firstFail = IF @ = 0 THEN hnd[p].pos ELSE @,
                        ![p].lastCall = Called(p)]
  /\ lockHolder' = Settled(p)
  /\ UNCHANGED taskVars
  /\ UNCHANGED <<started, elems, poison, store, rules, clock, lastRun, prevRun>>

AtPatch(p) ==
  /\ p \in started
  /\ hnd[p].pc = "delete"
  /\ hnd[p].pos > Len(hnd[p].elements)

\* line 95: the rule is patched
Patch(p) ==
  /\ AtPatch(p)
  /\ LET k == hnd[p].index
         patch == RulePatch(hnd[p], hnd[p].cycle)
     IN /\ rules' = [rules EXCEPT ![k] = [scope |-> rules[k].scope] @@ patch]
        /\ prevRun' = [prevRun EXCEPT ![k] = lastRun[k]]
        /\ lastRun' = [lastRun EXCEPT ![k] =
             [cycle |-> hnd[p].cycle, by |-> p, atFetch |-> obs[p].atFetch,
              atPatch |-> store, batch |-> Len(hnd[p].elements),
              attempts |-> obs[p].attempts, ok |-> obs[p].ok,
              failed |-> obs[p].failed, firstFail |-> obs[p].firstFail,
              remaining |-> patch.remaining_count,
              lastDeleted |-> patch.last_deleted_count]]
        /\ obs' = [obs EXCEPT ![p].events = @ \cup {<<k, "patch">>}]
  /\ hnd' = [hnd EXCEPT ![p].pc = "loop", ![p].index = @ + 1]
  /\ UNCHANGED taskVars
  /\ UNCHANGED <<started, elems, poison, store, lockHolder, clock>>

\* line 95 throws
PatchError(p) ==
  /\ AtPatch(p)
  /\ hnd' = [hnd EXCEPT ![p] = Rejected(hnd[p], "Error")]
  /\ obs' = [obs EXCEPT ![p].cause = "patch", ![p].causeAt = hnd[p].index]
  /\ lockHolder' = Settled(p)
  /\ UNCHANGED taskVars
  /\ UNCHANGED <<started, elems, poison, store, rules, clock, lastRun, prevRun>>

Next ==
  \E p \in Procs :
    \/ Schedule(p)
    \/ LeaseLost(p)
    \/ RuleAbort(p)
    \/ RuleStart(p)
    \/ HandlerReturn(p)
    \/ Fetch(p)
    \/ FetchScopeError(p)
    \/ FetchStoreError(p)
    \/ DeleteOk(p)
    \/ DeleteFail(p)
    \/ Patch(p)
    \/ PatchError(p)

Spec == Init /\ [][Next]_vars

LockSpec == LockInit /\ [][Next]_vars

\* ------------------------------------------------------ repeated cycles
\* the interval of cronSchedulerHandler fires for ever (lines 116-121); the
\* cycle number stops growing at MaxCycles so that the states stay finite
LiveSchedule(p) ==
  /\ p \in started
  /\ hnd[p].pc = "idle"
  /\ lockHolder = NoLock
  /\ lockHolder' = p
  /\ clock' = Min(clock + 1, MaxCycles)
  /\ hnd' = [hnd EXCEPT ![p] = [IdleHandler EXCEPT !.pc = "loop",
                                                   !.cycle = Min(clock + 1, MaxCycles)]]
  /\ obs' = [obs EXCEPT ![p] = FreshObs]
  /\ UNCHANGED taskVars
  /\ UNCHANGED <<started, elems, poison, store, rules, lastRun, prevRun>>

\* one instance, every rule of a supported scope
LiveInit ==
  /\ Init
  /\ \A k \in RuleIds : ScopeExists(rules[k].scope)

\* the store, the lock and the signal do not fail: only deletions throw
LiveNext ==
  \E p \in Procs :
    \/ LiveSchedule(p)
    \/ RuleStart(p)
    \/ HandlerReturn(p)
    \/ Fetch(p)
    \/ DeleteOk(p)
    \/ DeleteFail(p)
    \/ Patch(p)

\* the timer fires again and again and every await settles
LiveSpec == LiveInit /\ [][LiveNext]_vars /\ WF_vars(LiveNext)

\* ======================================================= background tasks
TASK_TYPE_QUERY == "QUERY"
TASK_TYPE_RULE == "RULE"
TASK_TYPE_LIST == "LIST"

ACTION_TYPE_DELETE == "DELETE"
ACTION_TYPE_RESTORE == "RESTORE"
ACTION_TYPE_COMPLETE_DELETE == "COMPLETE_DELETE"
ACTION_TYPE_SHARE == "SHARE"
ACTION_TYPE_UNSHARE == "UNSHARE"
ACTION_TYPE_SHARE_MULTIPLE == "SHARE_MULTIPLE"
ACTION_TYPE_UNSHARE_MULTIPLE == "UNSHARE_MULTIPLE"

\* capabilities imported at lines 137-138
SETTINGS_SETLABELS == "SETTINGS_SETLABELS"
SETTINGS_SET_ACCESSES == "SETTINGS_SETACCESSES"
KNOWLEDGE_KNASKIMPORT == "KNOWLEDGE_KNASKIMPORT"
KNOWLEDGE_KNUPDATE == "KNOWLEDGE_KNUPDATE"
KNOWLEDGE_UPDATE == "KNOWLEDGE_KNUPDATE"
KNOWLEDGE_DELETE == "KNOWLEDGE_KNUPDATE_KNDELETE"
MEMBER_ACCESS_RIGHT_ADMIN == "admin"

Capabilities ==
  {SETTINGS_SETLABELS, SETTINGS_SET_ACCESSES, KNOWLEDGE_KNASKIMPORT, KNOWLEDGE_UPDATE,
   KNOWLEDGE_DELETE}

ENTITY_TYPE_BACKGROUND_TASK == "BackgroundTask"
ENTITY_TYPE_NOTIFICATION == "Notification"
ENTITY_TYPE_VOCABULARY == "Vocabulary"
ENTITY_TYPE_DELETE_OPERATION == "DeleteOperation"
INDEX_INTERNAL_OBJECTS == "opencti_internal_objects"

\* BackgroundTaskScope, and a value outside it
TaskScopes == {"SETTINGS", "KNOWLEDGE", "USER", "IMPORT"}
OtherScope == "OTHER"
NoScope == "undefined"

\* the stored objects ids can resolve to; any other id resolves to undefined
Undefined == [entity_type |-> "undefined", parent_types |-> <<>>, user_id |-> "undefined"]

Objects ==
  [report |-> [entity_type |-> "Report",
               parent_types |-> <<"Stix-Core-Object", "Stix-Domain-Object">>,
               user_id |-> "undefined"],
   vocab |-> [entity_type |-> ENTITY_TYPE_VOCABULARY,
              parent_types |-> <<"Stix-Object", "Stix-Meta-Object">>,
              user_id |-> "undefined"],
   delop |-> [entity_type |-> ENTITY_TYPE_DELETE_OPERATION,
              parent_types |-> <<"Internal-Object">>,
              user_id |-> "undefined"],
   notif1 |-> [entity_type |-> ENTITY_TYPE_NOTIFICATION,
               parent_types |-> <<"Internal-Object">>,
               user_id |-> "u1"],
   notif2 |-> [entity_type |-> ENTITY_TYPE_NOTIFICATION,
               parent_types |-> <<"Internal-Object">>,
               user_id |-> "u2"]]

UnknownId == "gone"
Ids == DOMAIN Objects \cup {UnknownId}

\* internalLoadById(context, user, id)
InternalLoadById(id) == IF id \in DOMAIN Objects THEN Objects[id] ELSE Undefined

\* variant: the expected type is not checked
StoreLoadById_AnyType(id, type) == InternalLoadById(id)

\* storeLoadById(context, user, id, type)
StoreLoadById(id, type) ==
  IF id \in DOMAIN Objects /\ Objects[id].entity_type = type THEN Objects[id] ELSE Undefined

\* isKnowledge(type) of schema/general and getParentTypes(type) of schemaUtils
IsKnowledge(type) ==
  type \in {"Stix-Object", "Stix-Core-Object", "Stix-Domain-Object", "Stix-Meta-Object",
            "Report", ENTITY_TYPE_VOCABULARY}

GetParentTypes(type) ==
  IF type = "Report" THEN <<"Stix-Core-Object", "Stix-Domain-Object">>
  ELSE IF type = ENTITY_TYPE_VOCABULARY THEN <<"Stix-Object", "Stix-Meta-Object">>
  ELSE <<"Internal-Object">>

\* isUserHasCapability(user, capability)
IsUserHasCapability(user, capability) == capability \in user.capabilities

RECURSIVE Flat(_)
Flat(seqs) == IF seqs = <<>> THEN <<>> ELSE Head(seqs) \o Flat(Tail(seqs))

\* the elements of an array
Range(seq) == {seq[i] : i \in 1..Len(seq)}

\* variant: RESTORE is not a deletion related action
IsDeleteRestrictedAction_NoRestore(a) ==
  a = ACTION_TYPE_DELETE \/ a = ACTION_TYPE_COMPLETE_DELETE

\* line 163
IsDeleteRestrictedAction(a) ==
  a = ACTION_TYPE_DELETE \/ a = ACTION_TYPE_RESTORE \/ a = ACTION_TYPE_COMPLETE_DELETE

\* variant: one knowledge parent type is enough
AreParentTypesKnowledge_Some(parentTypes) == \E type \in Range(Flat(parentTypes)) : IsKnowledge(type)

\* line 164
AreParentTypesKnowledge(parentTypes) == \A type \in Range(Flat(parentTypes)) : IsKnowledge(type)

\* a filter key is a string or an array of strings
KeyIncludes(key, name) ==
  IF key.array THEN \E i \in 1..Len(key.names) : key.names[i] = name
  ELSE key.names[1] = name

KeyIs(key, name) == ~key.array /\ key.names[1] = name

\* JSON.parse(undefined filters) and isFilterGroupNotEmpty, lines 169-172
NoFilterGroup == [mode |-> "undefined", filters |-> <<>>, filterGroups |-> <<>>]

IsFilterGroupNotEmpty(group) ==
  group.mode # "undefined" /\ (Len(group.filters) > 0 \/ Len(group.filterGroups) > 0)

IsTypeFilter(f) == KeyIncludes(f.key, "entity_type")
\* variant: a user_id filter is recognised like an entity_type filter
IsUserFilter_AnyKey(f) == KeyIncludes(f.key, "user_id")

IsUserFilter(f) == KeyIs(f.key, "user_id")

Valid == "valid"

\* variant: Vocabulary is judged by its ancestry like any other type
CheckKnowledge_VocabularyByAncestry(user, input, taskType) ==
  LET filters == IF IsFilterGroupNotEmpty(input.filters) THEN input.filters.filters ELSE <<>>
      typeFilters == SelectSeq(filters, IsTypeFilter)
      typeFiltersValues == Flat([i \in 1..Len(typeFilters) |-> typeFilters[i].values])
      objects == [i \in 1..Len(input.ids) |-> InternalLoadById(input.ids[i])]
  IN IF ~IsUserHasCapability(user, KNOWLEDGE_UPDATE) THEN "ForbiddenAccess"
     ELSE IF (\E a \in Range(input.actions) : IsDeleteRestrictedAction(a))
             /\ ~IsUserHasCapability(user, KNOWLEDGE_DELETE) THEN "ForbiddenAccess"
     ELSE IF taskType = TASK_TYPE_QUERY
       THEN IF /\ ~(\A type \in Range(typeFiltersValues) : type = ENTITY_TYPE_DELETE_OPERATION)
               /\ ~AreParentTypesKnowledge(
                     [i \in 1..Len(typeFiltersValues) |-> GetParentTypes(typeFiltersValues[i])])
            THEN "ForbiddenAccess: The targeted ids are not knowledge."
            ELSE Valid
     ELSE IF taskType = TASK_TYPE_LIST
       THEN IF \/ Undefined \in Range(objects)
               \/ /\ ~(\A o \in Range(objects) : o.entity_type = ENTITY_TYPE_DELETE_OPERATION)
                  /\ ~AreParentTypesKnowledge([i \in 1..Len(objects) |-> objects[i].parent_types])
            THEN "ForbiddenAccess: The targeted ids are not knowledge."
            ELSE Valid
     ELSE "UnsupportedError: A background task should be of type query or list."

\* checkActionValidity, lines 180-213
CheckKnowledge(user, input, taskType) ==
  LET filters == IF IsFilterGroupNotEmpty(input.filters) THEN input.filters.filters ELSE <<>>
      typeFilters == SelectSeq(filters, IsTypeFilter)
      typeFiltersValues == Flat([i \in 1..Len(typeFilters) |-> typeFilters[i].values])
      objects == [i \in 1..Len(input.ids) |-> InternalLoadById(input.ids[i])]
  IN IF ~IsUserHasCapability(user, KNOWLEDGE_UPDATE) THEN "ForbiddenAccess"
     ELSE IF (\E a \in Range(input.actions) : IsDeleteRestrictedAction(a))
             /\ ~IsUserHasCapability(user, KNOWLEDGE_DELETE) THEN "ForbiddenAccess"
     ELSE IF taskType = TASK_TYPE_QUERY
       THEN IF \/ /\ ~(\A type \in Range(typeFiltersValues) : type = ENTITY_TYPE_DELETE_OPERATION)
                  /\ ~AreParentTypesKnowledge(
                        [i \in 1..Len(typeFiltersValues) |-> GetParentTypes(typeFiltersValues[i])])
               \/ \E type \in Range(typeFiltersValues) : type = ENTITY_TYPE_VOCABULARY
            THEN "ForbiddenAccess: The targeted ids are not knowledge."
            ELSE Valid
     ELSE IF taskType = TASK_TYPE_LIST
       THEN IF \/ Undefined \in Range(objects)
               \/ /\ ~(\A o \in Range(objects) : o.entity_type = ENTITY_TYPE_DELETE_OPERATION)
                  /\ ~AreParentTypesKnowledge([i \in 1..Len(objects) |-> objects[i].parent_types])
               \/ \E o \in Range(objects) : o.entity_type = ENTITY_TYPE_VOCABULARY
            THEN "ForbiddenAccess: The targeted ids are not knowledge."
            ELSE Valid
     ELSE "UnsupportedError: A background task should be of type query or list."

\* checkActionValidity, lines 214-246
CheckUser(user, input, taskType) ==
  LET filters == IF IsFilterGroupNotEmpty(input.filters) THEN input.filters.filters ELSE <<>>
      typeFilters == SelectSeq(filters, IsTypeFilter)
      userFilters == SelectSeq(filters, IsUserFilter)
      objects == [i \in 1..Len(input.ids) |->
                    StoreLoadById(input.ids[i], ENTITY_TYPE_NOTIFICATION)]
      notificationsUsers == {o.user_id : o \in Range(objects)}
  IN IF taskType = TASK_TYPE_QUERY
       THEN IF ~(/\ Len(typeFilters) = 1
                 /\ Len(typeFilters[1].values) = 1
                 /\ typeFilters[1].values[1] = "Notification")
            THEN "ForbiddenAccess: The targeted ids are not notifications."
            ELSE IF \/ IsUserHasCapability(user, SETTINGS_SET_ACCESSES)
                    \/ /\ Len(userFilters) > 0
                       /\ Len(userFilters[1].values) = 1
                       /\ userFilters[1].values[1] = user.id
                 THEN Valid
                 ELSE "ForbiddenAccess"
     ELSE IF taskType = TASK_TYPE_LIST
       THEN IF Undefined \in Range(objects)
            THEN "ForbiddenAccess: The targeted ids are not notifications."
            ELSE IF \/ IsUserHasCapability(user, SETTINGS_SET_ACCESSES)
                    \/ (Cardinality(notificationsUsers) = 1 /\ user.id \in notificationsUsers)
                 THEN Valid
                 ELSE "ForbiddenAccess"
     ELSE "UnsupportedError: A background task should be of type query or list."

\* variant: scope Import accepts what the comment of line 252 announces,
\* requests made of deletions only
CheckActionValidity_ImportOnlyDeletions(user, input, scope, taskType) ==
  IF scope = "SETTINGS"
    THEN IF IsUserHasCapability(user, SETTINGS_SETLABELS) THEN Valid ELSE "ForbiddenAccess"
  ELSE IF scope = "KNOWLEDGE" THEN CheckKnowledge(user, input, taskType)
  ELSE IF scope = "USER" THEN CheckUser(user, input, taskType)
  ELSE IF scope = "IMPORT"
    THEN IF ~IsUserHasCapability(user, KNOWLEDGE_KNASKIMPORT) THEN "ForbiddenAccess"
         ELSE IF \A a \in Range(input.actions) : a = ACTION_TYPE_DELETE
              THEN Valid
              ELSE "UnsupportedError: Background tasks of scope Import can only be deletions."
  ELSE "UnsupportedError: A background task should be of scope: SETTINGS, KNOWLEDGE, USER, IMPORT."

\* checkActionValidity, lines 167-261: Valid, or the error it throws
CheckActionValidity(user, input, scope, taskType) ==
  IF scope = "SETTINGS"
    THEN IF IsUserHasCapability(user, SETTINGS_SETLABELS) THEN Valid ELSE "ForbiddenAccess"
  ELSE IF scope = "KNOWLEDGE" THEN CheckKnowledge(user, input, taskType)
  ELSE IF scope = "USER" THEN CheckUser(user, input, taskType)
  ELSE IF scope = "IMPORT"
    THEN IF ~IsUserHasCapability(user, KNOWLEDGE_KNASKIMPORT) THEN "ForbiddenAccess"
         ELSE IF \A a \in Range(input.actions) : a = ACTION_TYPE_DELETE
              THEN "UnsupportedError: Background tasks of scope Import can only be deletions."
              ELSE Valid
  ELSE "UnsupportedError: A background task should be of scope: SETTINGS, KNOWLEDGE, USER, IMPORT."

\* lines 292-305
AuthorizedAuthoritiesForTask(scope) ==
  CASE scope = "SETTINGS" -> <<SETTINGS_SETLABELS>>
    [] scope = "KNOWLEDGE" -> <<KNOWLEDGE_KNUPDATE>>
    [] scope = "USER" -> <<SETTINGS_SET_ACCESSES>>
    [] scope = "IMPORT" -> <<KNOWLEDGE_KNASKIMPORT>>
    [] OTHER -> <<>>

\* variant: the creator is a member whatever the scope
AuthorizedMembersForTask_AnyScope(user, scope) ==
  <<[id |-> user.id, access_right |-> MEMBER_ACCESS_RIGHT_ADMIN]>>

\* lines 307-316
AuthorizedMembersForTask(user, scope) ==
  IF scope \in {"SETTINGS", "KNOWLEDGE", "USER"}
  THEN <<[id |-> user.id, access_right |-> MEMBER_ACCESS_RIGHT_ADMIN]>>
  ELSE <<>>

\* generateInternalId(): an id no stored record has
GenerateInternalId == "task-" \o ToString(Cardinality(index) + 1)

\* generateStandardId(type, input): a function of the type and the input
GenerateStandardId(type, input) == <<type, input>>

\* createDefaultTask, lines 263-290
CreateDefaultTask(user, input, taskType, taskExpectedNumber, scope) ==
  LET taskId == GenerateInternalId
      task == [id |-> taskId,
               internal_id |-> taskId,
               standard_id |-> GenerateStandardId(ENTITY_TYPE_BACKGROUND_TASK, input),
               entity_type |-> ENTITY_TYPE_BACKGROUND_TASK,
               initiator_id |-> user.internal_id,
               created_at |-> clock,
               completed |-> FALSE,
               type |-> taskType,
               last_execution_date |-> "null",
               task_position |-> "null",
               task_processed_number |-> 0,
               task_expected_number |-> taskExpectedNumber,
               errors |-> <<>>]
  IN IF scope # NoScope
     THEN task @@ [scope |-> scope,
                   authorized_members |-> AuthorizedMembersForTask(user, scope),
                   authorized_authorities |-> AuthorizedAuthoritiesForTask(scope)]
     ELSE task

\* lines 321-326
ListTask(user, input) ==
  CreateDefaultTask(user, input, TASK_TYPE_LIST, Len(input.ids), input.scope)
    @@ [actions |-> input.actions, task_ids |-> input.ids]

\* lines 327-334
CreationEvent(user, listTask) ==
  [user |-> user.id, event_type |-> "mutation", event_scope |-> "create",
   event_access |-> "extended", message |-> "creates background task",
   context_data |-> [entity_type |-> ENTITY_TYPE_BACKGROUND_TASK, input |-> listTask]]

\* variant: the check is not awaited, its rejection is lost
AfterCheck_NotAwaited(result) == "publish"

\* line 320: the awaited check throws and createListTask is over, or it goes on
AfterCheck(result) == IF result = Valid THEN "publish" ELSE "denied"

\* variant: publishUserAction is not awaited, its outcome is ignored
AfterPublish_NotAwaited(outcome) == "index"

\* line 327: the awaited publishUserAction settles; its rejection ends
\* createListTask before elIndex
AfterPublish(outcome) == IF outcome = "fulfilled" THEN "index" ELSE "failed"

\* ------------------------------------------------------ createListTask
SeqsUpTo(S, n) == UNION {[1..m -> S] : m \in 0..n}

ActionsUsed == {ACTION_TYPE_DELETE, ACTION_TYPE_SHARE}

Principals == [id : {"u1"}, internal_id : {"u1"}, capabilities : SUBSET Capabilities]

ListInputs ==
  [actions : SeqsUpTo(ActionsUsed, MaxActions), ids : SeqsUpTo(Ids, MaxIds),
   filters : {NoFilterGroup}, scope : TaskScopes \cup {OtherScope}]

\* a client calls createListTask(context, user, input); the retention
\* manager is not started on this instance
TaskInit ==
  /\ started = {}
  /\ RetentionInit([e \in ElemIds |-> "ready"], [k \in RuleIds |-> "knowledge"])
  /\ \E user \in Principals : \E input \in ListInputs :
       req = [pc |-> "check", user |-> user, input |-> input, result |-> "pending"]
  /\ index = {}
  /\ audit = <<>>

retentionVars ==
  <<started, elems, poison, store, rules, lockHolder, clock, hnd, obs, lastRun, prevRun>>

CheckResult == CheckActionValidity(req.user, req.input, req.input.scope, TASK_TYPE_LIST)

\* line 320 throws: createListTask rejects with the error
TaskDenied ==
  /\ req.pc = "check"
  /\ AfterCheck(CheckResult) = "denied"
  /\ req' = [req EXCEPT !.pc = "denied", !.result = CheckResult]
  /\ UNCHANGED <<index, audit>>
  /\ UNCHANGED retentionVars

\* lines 320-326: the check passes and the task record is built
TaskBuilt ==
  /\ req.pc = "check"
  /\ AfterCheck(CheckResult) = "publish"
  /\ req' = [pc |-> "publish", user |-> req.user, input |-> req.input,
             result |-> "pending", task |-> ListTask(req.user, req.input)]
  /\ UNCHANGED <<index, audit>>
  /\ UNCHANGED retentionVars

\* lines 327-334: the audit event is published
Publish ==
  /\ req.pc = "publish"
  /\ audit' = Append(audit, CreationEvent(req.user, req.task))
  /\ req' = [req EXCEPT !.pc = AfterPublish("fulfilled")]
  /\ UNCHANGED index
  /\ UNCHANGED retentionVars

\* line 327: the awaited publishUserAction rejects
PublishError ==
  /\ req.pc = "publish"
  /\ req' = [req EXCEPT !.pc = AfterPublish("rejected"),
                         !.result = "publishUserAction threw"]
  /\ UNCHANGED <<index, audit>>
  /\ UNCHANGED retentionVars

\* lines 335-336: the record is indexed and returned
ElIndex ==
  /\ req.pc = "index"
  /\ index' = index \cup {[index |-> INDEX_INTERNAL_OBJECTS, doc |-> req.task]}
  /\ req' = [req EXCEPT !.pc = "returned", !.result = "listTask"]
  /\ UNCHANGED audit
  /\ UNCHANGED retentionVars

\* line 335: the awaited elIndex rejects
ElIndexError ==
  /\ req.pc = "index"
  /\ req' = [req EXCEPT !.pc = "failed", !.result = "elIndex threw"]
  /\ UNCHANGED <<index, audit>>
  /\ UNCHANGED retentionVars

TaskNext ==
  \/ TaskDenied
  \/ TaskBuilt
  \/ Publish
  \/ PublishError
  \/ ElIndex
  \/ ElIndexError

TaskSpec == TaskInit /\ [][TaskNext]_vars

\* ------------------------------------------------- checkActionValidity
\* the calls of checkActionValidity: createQueryTask passes the filters of a
\* query input, createListTask the ids of a list input; the function is
\* exported and takes any task type
CheckActionsUsed ==
  {ACTION_TYPE_DELETE, ACTION_TYPE_RESTORE, ACTION_TYPE_COMPLETE_DELETE, ACTION_TYPE_SHARE}

StringKey(name) == [array |-> FALSE, names |-> <<name>>]
ArrayKey(name) == [array |-> TRUE, names |-> <<name>>]

TypeFilter(type) == [key |-> StringKey("entity_type"), values |-> <<type>>]
UserFilter(values) == [key |-> StringKey("user_id"), values |-> values]

\* the filters and ids the branch of each scope is called with
ImportFilterPool == {TypeFilter("Report"), UserFilter(<<"u1">>)}
ImportIds == {"report", UnknownId}

UserFilterPool ==
  {TypeFilter(ENTITY_TYPE_NOTIFICATION),
   TypeFilter("Report"),
   [key |-> ArrayKey("entity_type"), values |-> <<ENTITY_TYPE_NOTIFICATION, "Report">>],
   UserFilter(<<"u1">>),
   UserFilter(<<"u2">>),
   UserFilter(<<"u1", "u2">>),
   [key |-> ArrayKey("user_id"), values |-> <<"u1">>]}
UserIds == {"notif1", "notif2", "report", UnknownId}

KnowledgeFilterPool ==
  {TypeFilter("Report"),
   TypeFilter(ENTITY_TYPE_VOCABULARY),
   TypeFilter(ENTITY_TYPE_DELETE_OPERATION),
   TypeFilter(ENTITY_TYPE_NOTIFICATION)}
KnowledgeIds == {"report", "vocab", "delop", "notif1", UnknownId}

FilterGroups(pool) ==
  {NoFilterGroup} \cup
  {[mode |-> "and", filters |-> fs, filterGroups |-> <<>>] :
     fs \in SeqsUpTo(pool, MaxFilters) \ {<<>>}}

CheckInput(actions, ids, filters, scope) ==
  [actions |-> actions, ids |-> ids, filters |-> filters, scope |-> scope]

CheckCalls(scope, actionLists, pool, ids) ==
  {[input |-> CheckInput(a, <<>>, g, scope), taskType |-> TASK_TYPE_QUERY] :
     a \in actionLists, g \in FilterGroups(pool)}
  \cup {[input |-> CheckInput(a, l, NoFilterGroup, scope), taskType |-> TASK_TYPE_LIST] :
     a \in actionLists, l \in SeqsUpTo(ids, MaxIds)}
  \cup {[input |-> CheckInput(a, <<>>, NoFilterGroup, scope), taskType |-> TASK_TYPE_RULE] :
     a \in actionLists}

\* a caller awaits checkActionValidity(context, user, input, scope, taskType)
CheckInit(calls) ==
  /\ started = {}
  /\ RetentionInit([e \in ElemIds |-> "ready"], [k \in RuleIds |-> "knowledge"])
  /\ \E user \in Principals : \E call \in calls :
       req = [pc |-> "call", user |-> user, input |-> call.input,
              taskType |-> call.taskType, result |-> "pending"]
  /\ index = {}
  /\ audit = <<>>

CheckOutcome == CheckActionValidity(req.user, req.input, req.input.scope, req.taskType)

\* the promise resolves: no branch threw
CheckResolved ==
  /\ req.pc = "call"
  /\ CheckOutcome = Valid
  /\ req' = [req EXCEPT !.pc = "resolved", !.result = CheckOutcome]
  /\ UNCHANGED <<index, audit>>
  /\ UNCHANGED retentionVars

\* the promise rejects with the error thrown
CheckRejected ==
  /\ req.pc = "call"
  /\ CheckOutcome # Valid
  /\ req' = [req EXCEPT !.pc = "rejected", !.result = CheckOutcome]
  /\ UNCHANGED <<index, audit>>
  /\ UNCHANGED retentionVars

CheckNext ==
  \/ CheckResolved
  \/ CheckRejected

ImportCheckInit ==
  CheckInit(CheckCalls("IMPORT", SeqsUpTo(CheckActionsUsed, MaxActions),
                       ImportFilterPool, ImportIds))

UserCheckInit ==
  CheckInit(CheckCalls("USER", SeqsUpTo(ActionsUsed, MaxActions), UserFilterPool, UserIds))

KnowledgeCheckInit ==
  CheckInit(CheckCalls("KNOWLEDGE", SeqsUpTo(CheckActionsUsed, MaxActions),
                       KnowledgeFilterPool, KnowledgeIds))

ImportCheckSpec == ImportCheckInit /\ [][CheckNext]_vars

UserCheckSpec == UserCheckInit /\ [][CheckNext]_vars

KnowledgeCheckSpec == KnowledgeCheckInit /\ [][CheckNext]_vars

\* createQueryTask on notifications: the entity_type filter on Notification
\* and up to MaxFilters filters on user_id, combined with and / or
OwnerFilterPool ==
  {UserFilter(<<"u1">>),
   UserFilter(<<"u2">>),
   UserFilter(<<"u1", "u2">>),
   [key |-> ArrayKey("user_id"), values |-> <<"u2">>]}

NotificationQueryCalls ==
  {[input |-> CheckInput(a, <<>>,
                         [mode |-> mode,
                          filters |-> <<TypeFilter(ENTITY_TYPE_NOTIFICATION)>> \o fs,
                          filterGroups |-> <<>>],
                         "USER"),
    taskType |-> TASK_TYPE_QUERY] :
     a \in SeqsUpTo(ActionsUsed, MaxActions), mode \in {"and", "or"},
     fs \in SeqsUpTo(OwnerFilterPool, MaxFilters)}

NotificationQueryInit == CheckInit(NotificationQueryCalls)

NotificationQuerySpec == NotificationQueryInit /\ [][CheckNext]_vars

\* ---------------------------------------------------- createDefaultTask
\* createDefaultTask is exported: createListTask calls it with the scope of
\* its input, other callers pass any task type and scope, or no scope
DefaultTaskCalls ==
  [user : Principals,
   input : {CheckInput(a, <<>>, NoFilterGroup, NoScope) : a \in SeqsUpTo(ActionsUsed, MaxActions)},
   taskType : {TASK_TYPE_QUERY, TASK_TYPE_RULE, TASK_TYPE_LIST},
   taskExpectedNumber : 0..MaxIds,
   scope : TaskScopes \cup {OtherScope, NoScope}]

DefaultTaskInit ==
  /\ started = {}
  /\ RetentionInit([e \in ElemIds |-> "ready"], [k \in RuleIds |-> "knowledge"])
  /\ \E call \in DefaultTaskCalls :
       req = [pc |-> "create", user |-> call.user, input |-> call.input,
              taskType |-> call.taskType, taskExpectedNumber |-> call.taskExpectedNumber,
              scope |-> call.scope, result |-> "pending"]
  /\ index = {}
  /\ audit = <<>>

\* lines 263-290: the record is built and returned
DefaultTaskReturned ==
  /\ req.pc = "create"
  /\ req' = [pc |-> "created", user |-> req.user, input |-> req.input,
             taskType |-> req.taskType, taskExpectedNumber |-> req.taskExpectedNumber,
             scope |-> req.scope, result |-> "task",
             task |-> CreateDefaultTask(req.user, req.input, req.taskType,
                                        req.taskExpectedNumber, req.scope)]
  /\ UNCHANGED <<index, audit>>
  /\ UNCHANGED retentionVars

FactoryInit == TaskInit \/ DefaultTaskInit

FactoryNext ==
  \/ TaskNext
  \/ DefaultTaskReturned

FactorySpec == FactoryInit /\ [][FactoryNext]_vars

\* ================================================================ claims
\* ================================================================ claims
InBody(p) == hnd[p].pc \in {"fetch", "delete"}

Finished(p) == hnd[p].pc = "idle" /\ hnd[p].cycle > 0

EventsFrom(p, k) == {ev \in obs[p].events : ev[1] >= k}

\* C1: at most one instance is inside the handler body (fetch, element
\* deletions, rule patch) at any instant, also when a run outlasts the lease.
C1_OneActiveHandler ==
  \A p, q \in Procs : (InBody(p) /\ InBody(q)) => p = q

\* C2: deleteElement is never invoked on an element whose uploadStatus is not
\* 'complete' or that has a work whose status is not 'complete', whatever the
\* rule's scope.
C2_NeverDeleteInFlight ==
  \A p \in Procs :
    obs[p].lastCall # NoCall =>
      /\ obs[p].lastCall.uploadStatus = "complete"
      /\ \A i \in 1..Len(obs[p].lastCall.works) : obs[p].lastCall.works[i] = "complete"

\* C3: when checkActionValidity denies the createListTask request (scope
\* Knowledge with an id that does not resolve, for one), no audit event is
\* published and no record is written: index and audit log stay as they were.
C3_DeniedTouchesNothing ==
  (req.pc # "none" /\ CheckResult # Valid) =>
    /\ req.pc \in {"check", "denied"}
    /\ index = {}
    /\ audit = <<>>

C3_Witness ==
  /\ req.pc = "denied"
  /\ req.input.scope = "KNOWLEDGE"
  /\ {KNOWLEDGE_UPDATE, KNOWLEDGE_DELETE} \subseteq req.user.capabilities
  /\ req.input.ids = <<"report", UnknownId>>
  /\ req.result = "ForbiddenAccess: The targeted ids are not knowledge."
  /\ index = {}
  /\ audit = <<>>

\* C4: the last_deleted_count a run persists is the number of elements of its
\* batch whose deletion did not throw.
C4_DeletedCountIsSuccesses ==
  \A k \in RuleIds :
    lastRun[k] # NoRun => rules[k].last_deleted_count = lastRun[k].ok

AllReady(S) == \A e \in S : Deletable(elems[e]) /\ e \notin poison

\* C5: the remaining_count a run persists is the number of matching elements
\* in the store at that run's fetch, before its deletions and whatever the
\* batch size; a run deletes at most RETENTION_BATCH_SIZE elements; and when
\* every match is complete and deletes cleanly, last_deleted_count is the
\* smaller of that number and the batch size (150 -> 100 of 150, then 50 of 50).
C5_RemainingIsCountAtFetch ==
  \A k \in RuleIds :
    lastRun[k] # NoRun =>
      /\ rules[k].remaining_count = Cardinality(lastRun[k].atFetch)
      /\ Cardinality(lastRun[k].atFetch \ lastRun[k].atPatch) <= RETENTION_BATCH_SIZE
      /\ AllReady(lastRun[k].atFetch) =>
           /\ rules[k].last_deleted_count =
                Min(Cardinality(lastRun[k].atFetch), RETENTION_BATCH_SIZE)
           /\ Cardinality(lastRun[k].atPatch) =
                Cardinality(lastRun[k].atFetch) - rules[k].last_deleted_count

\* two runs of a rule: the first sees more matches than a batch and deletes a
\* full batch, the second sees and deletes the rest
C5_Witness ==
  \E k \in RuleIds :
    /\ prevRun[k] # NoRun
    /\ lastRun[k] # NoRun
    /\ AllReady(ElemIds)
    /\ prevRun[k].remaining = NumElems
    /\ prevRun[k].remaining > RETENTION_BATCH_SIZE
    /\ prevRun[k].lastDeleted = RETENTION_BATCH_SIZE
    /\ rules[k].remaining_count = NumElems - RETENTION_BATCH_SIZE
    /\ rules[k].last_deleted_count = NumElems - RETENTION_BATCH_SIZE

\* the second of two runs of rule k in immediate succession: the store it
\* fetches from is the store the first run left
Successive(k) ==
  /\ prevRun[k] # NoRun
  /\ lastRun[k] # NoRun
  /\ lastRun[k].atFetch = prevRun[k].atPatch

\* C6 as stated: the second of two successive runs persists
\* last_deleted_count = 0 and the remaining_count of the first run.
C6_SecondRunIdle ==
  \A k \in RuleIds :
    Successive(k) =>
      /\ rules[k].last_deleted_count = 0
      /\ rules[k].remaining_count = prevRun[k].remaining

\* C6 amended: the second of two successive runs persists the first run's
\* remaining_count less the elements the first run deleted, and it persists
\* last_deleted_count = 0 with an unchanged remaining_count exactly when the
\* first run's filtered batch was empty.
C6_SecondRunCounts ==
  \A k \in RuleIds :
    Successive(k) =>
      /\ rules[k].remaining_count = prevRun[k].remaining - prevRun[k].ok
      /\ (rules[k].last_deleted_count = 0 /\ rules[k].remaining_count = prevRun[k].remaining)
           <=> prevRun[k].batch = 0

C6_Witness ==
  \E k \in RuleIds :
    /\ Successive(k)
    /\ prevRun[k].ok > 0
    /\ rules[k].last_deleted_count > 0
    /\ rules[k].remaining_count < prevRun[k].remaining

\* C7: a deletion that throws is caught: every element of the batch gets its
\* deletion attempt, the rule is patched after the batch, and a cycle with no
\* fetch error, patch error or abort processes every rule and returns.
C7_DeleteFailureIsLocal ==
  /\ \A p \in Procs :
       /\ hnd[p].pc = "delete" => obs[p].attempts = hnd[p].pos - 1
       /\ (Finished(p) /\ obs[p].cause = "none") =>
            /\ hnd[p].outcome = "returned"
            /\ \A k \in RuleIds :
                 {<<k, "fetch">>, <<k, "patch">>} \subseteq obs[p].events
  /\ \A k \in RuleIds :
       lastRun[k] # NoRun => lastRun[k].attempts = lastRun[k].batch

\* the first element of rule 1's batch failed, the second was attempted, the
\* rule was patched and rule 2 was processed in the same cycle
C7_Witness ==
  /\ NumRules >= 2
  /\ lastRun[1] # NoRun
  /\ lastRun[1].firstFail = 1
  /\ lastRun[1].attempts = 2
  /\ lastRun[2].cycle = lastRun[1].cycle
  /\ Finished(lastRun[1].by)
  /\ hnd[lastRun[1].by].outcome = "returned"
  /\ hnd[lastRun[1].by].cycle = lastRun[1].cycle

\* C8: an exception of a rule's fetch (the unsupported scope included) or of
\* its patch leaves retentionHandler: the handler is over with that error, no
\* later rule of the cycle is fetched, deleted from or patched, and a rule
\* whose fetch failed has no deletion and no patch in the cycle.
C8_FetchPatchErrorEndsCycle ==
  \A p \in Procs :
    obs[p].cause \in {"fetch", "patch"} =>
      /\ hnd[p].pc = "idle"
      /\ hnd[p].outcome = "Error"
      /\ EventsFrom(p, obs[p].causeAt + 1) = {}
      /\ \A j \in RuleIds : j > obs[p].causeAt =>
           rules[j].last_execution_date # hnd[p].cycle
      /\ obs[p].cause = "fetch" =>
           /\ EventsFrom(p, obs[p].causeAt) = {}
           /\ rules[obs[p].causeAt].last_execution_date # hnd[p].cycle

C8_Witness ==
  \E p \in Procs :
    /\ obs[p].cause = "fetch"
    /\ obs[p].causeAt = 1
    /\ obs[p].causeAt < NumRules
    /\ rules[1].scope = UnsupportedScope
    /\ ScopeExists(rules[2].scope)
    /\ hnd[p].outcome = "Error"

\* C9: when the signal is aborted as the handler reaches the start of rule k,
\* rule k and the later rules get no fetch, no deletion and no patch, and the
\* rules before k keep the metadata this cycle patched.
C9_AbortStopsAtRuleBoundary ==
  \A p \in Procs :
    obs[p].abortSeenAt # 0 =>
      /\ EventsFrom(p, obs[p].abortSeenAt) = {}
      /\ \A j \in RuleIds : j >= obs[p].abortSeenAt =>
           rules[j].last_execution_date # hnd[p].cycle
      /\ \A j \in RuleIds : j < obs[p].abortSeenAt =>
           /\ <<j, "patch">> \in obs[p].events
           /\ rules[j].last_execution_date = hnd[p].cycle

C9_Witness ==
  \E p \in Procs :
    /\ obs[p].abortSeenAt = 2
    /\ <<1, "patch">> \in obs[p].events
    /\ rules[1].last_execution_date = hnd[p].cycle

\* C10 as stated: on detecting the abort at a rule boundary the handler
\* finishes with a normal return.
C10_AbortReturnsNormally ==
  \A p \in Procs :
    obs[p].abortSeenAt # 0 => (hnd[p].pc = "idle" /\ hnd[p].outcome = "returned")

\* C10 amended: on detecting the abort at a rule boundary the handler stops
\* and is rejected with the signal's abort reason; it does not return.
C10_AbortRejects ==
  \A p \in Procs :
    obs[p].abortSeenAt # 0 => (hnd[p].pc = "idle" /\ hnd[p].outcome = "AbortError")

C10_Witness ==
  \E p \in Procs :
    /\ obs[p].abortSeenAt # 0
    /\ obs[p].cause = "abort"
    /\ hnd[p].outcome = "AbortError"


CheckDone == req.pc \in {"resolved", "rejected"}

HasCap(capability) == capability \in req.user.capabilities

IsNotificationId(id) ==
  id \in DOMAIN Objects /\ Objects[id].entity_type = "Notification"

OwnersOf(ids) == {Objects[ids[i]].user_id : i \in 1..Len(ids)}

\* C12: for scope User and task type LIST checkActionValidity denies the
\* request if any id does not resolve to a notification; otherwise it allows
\* it exactly when the principal holds the manage-accesses capability or all
\* the notifications have one single owner and that owner is the principal;
\* without the capability, ids of two owners are denied and ids that are all
\* the principal's own are allowed
C12_ListOwnNotificationsOrCapability ==
  (CheckDone /\ req.input.scope = "USER" /\ req.taskType = TASK_TYPE_LIST) =>
    LET ids == req.input.ids
        allNotifications == \A i \in 1..Len(ids) : IsNotificationId(ids[i])
    IN /\ ~allNotifications => req.pc = "rejected"
       /\ allNotifications =>
            ((req.pc = "resolved") <=>
               (HasCap("SETTINGS_SETACCESSES") \/ OwnersOf(ids) = {req.user.id}))
       /\ (allNotifications /\ ~HasCap("SETTINGS_SETACCESSES")
              /\ Cardinality(OwnersOf(ids)) = 2) => req.pc = "rejected"
       /\ (allNotifications /\ ~HasCap("SETTINGS_SETACCESSES") /\ ids # <<>>
              /\ \A i \in 1..Len(ids) : Objects[ids[i]].user_id = req.user.id)
            => req.pc = "resolved"

C12_Witness ==
  /\ req.pc = "rejected"
  /\ req.input.scope = "USER"
  /\ req.taskType = TASK_TYPE_LIST
  /\ ~HasCap("SETTINGS_SETACCESSES")
  /\ req.input.ids = <<"notif1", "notif2">>

\* the filters of the request, those on entity_type (string or array key)
\* and those whose key is the string user_id
QueryFilters == IF req.input.filters.mode = "undefined" THEN <<>> ELSE req.input.filters.filters

OnEntityType(f) == "entity_type" \in Range(f.key.names)

OnUserId(f) == f.key = [array |-> FALSE, names |-> <<"user_id">>]

OnlyNotifications ==
  LET tf == SelectSeq(QueryFilters, OnEntityType)
  IN Len(tf) = 1 /\ tf[1].values = <<"Notification">>

UserQueryDone == CheckDone /\ req.input.scope = "USER" /\ req.taskType = TASK_TYPE_QUERY

\* C13 as stated: for scope User and task type QUERY the request is denied
\* unless the entity_type filters target exactly and only Notification and
\* the request carries a user_id filter pinned to exactly one value; given
\* both it is allowed exactly when the principal holds the manage-accesses
\* capability or the pinned user_id is the principal's own id
C13_QueryNeedsPinnedUserFilter ==
  UserQueryDone =>
    LET uf == SelectSeq(QueryFilters, OnUserId)
        pinned == Len(uf) > 0 /\ Len(uf[1].values) = 1
    IN /\ req.pc = "resolved" => (OnlyNotifications /\ pinned)
       /\ (OnlyNotifications /\ pinned) =>
            ((req.pc = "resolved") <=>
               (HasCap("SETTINGS_SETACCESSES") \/ uf[1].values[1] = req.user.id))

\* C13: for scope User and task type QUERY the request is allowed exactly
\* when there is one entity_type filter with the single value Notification
\* and either the principal holds the manage-accesses capability (no
\* user_id filter is needed then) or the first filter whose key is the
\* string user_id has the principal's own id as its single value
C13_QueryOwnNotificationsOrCapability ==
  UserQueryDone =>
    LET uf == SelectSeq(QueryFilters, OnUserId)
    IN (req.pc = "resolved") <=>
         (/\ OnlyNotifications
          /\ \/ HasCap("SETTINGS_SETACCESSES")
             \/ (Len(uf) > 0 /\ uf[1].values = <<req.user.id>>))

C13_Witness ==
  /\ UserQueryDone
  /\ req.pc = "resolved"
  /\ HasCap("SETTINGS_SETACCESSES")
  /\ SelectSeq(QueryFilters, OnUserId) = <<>>

KnowledgeDone == CheckDone /\ req.input.scope = "KNOWLEDGE"

\* the types a Knowledge request targets: the values of its entity_type
\* filters for QUERY, the types of its stored objects for LIST
TargetedTypes ==
  IF req.taskType = TASK_TYPE_QUERY
  THEN UNION {Range(f.values) : f \in {g \in Range(QueryFilters) : OnEntityType(g)}}
  ELSE {Objects[id].entity_type : id \in Range(req.input.ids) \cap DOMAIN Objects}

\* C14: for scope Knowledge checkActionValidity denies every QUERY with an
\* entity_type filter value Vocabulary and every LIST with an id of a stored
\* Vocabulary, whatever the principal's capabilities and the other targets
C14_VocabularyAlwaysDenied ==
  (/\ KnowledgeDone
   /\ req.taskType \in {TASK_TYPE_QUERY, TASK_TYPE_LIST}
   /\ "Vocabulary" \in TargetedTypes) => req.pc = "rejected"

C14_Witness ==
  /\ KnowledgeDone
  /\ req.taskType = TASK_TYPE_QUERY
  /\ TargetedTypes = {"Vocabulary"}
  /\ {"KNOWLEDGE_KNUPDATE", "KNOWLEDGE_KNUPDATE_KNDELETE"} \subseteq req.user.capabilities
  /\ req.result = "ForbiddenAccess: The targeted ids are not knowledge."

AsksDeletion == \E a \in Range(req.input.actions) : a \in {"DELETE", "RESTORE", "COMPLETE_DELETE"}

WithoutDeleteCapability ==
  [req.user EXCEPT !.capabilities = @ \ {"KNOWLEDGE_KNUPDATE_KNDELETE"}]

\* C15: for scope Knowledge checkActionValidity never allows a principal
\* lacking the modify-knowledge capability, never allows a request with a
\* DELETE, RESTORE or COMPLETE_DELETE action to a principal lacking the
\* delete-knowledge capability, and answers a request with none of these
\* actions the same with and without the delete-knowledge capability
C15_KnowledgeCapabilities ==
  KnowledgeDone =>
    /\ req.pc = "resolved" => HasCap("KNOWLEDGE_KNUPDATE")
    /\ (req.pc = "resolved" /\ AsksDeletion) => HasCap("KNOWLEDGE_KNUPDATE_KNDELETE")
    /\ ~AsksDeletion =>
         req.result = CheckActionValidity(WithoutDeleteCapability, req.input,
                                          req.input.scope, req.taskType)

C15_Witness ==
  /\ KnowledgeDone
  /\ req.pc = "resolved"
  /\ ~HasCap("KNOWLEDGE_KNUPDATE_KNDELETE")
  /\ req.input.actions = <<"SHARE", "SHARE">>
  /\ req.input.ids = <<"report">>

KnowledgeByAncestry(type) == \A parent \in Range(GetParentTypes(type)) : IsKnowledge(parent)

\* C16: for scope Knowledge checkActionValidity allows a QUERY or LIST
\* request only if all the targeted types are knowledge by their ancestry or
\* all of them are the delete-operation type, and it denies a LIST request
\* that has one id resolving to no stored object
C16_TargetsAreKnowledge ==
  KnowledgeDone =>
    /\ req.pc = "resolved" =>
         \/ \A type \in TargetedTypes : KnowledgeByAncestry(type)
         \/ \A type \in TargetedTypes : type = "DeleteOperation"
    /\ (req.taskType = TASK_TYPE_LIST /\ \E id \in Range(req.input.ids) : id \notin DOMAIN Objects)
         => req.pc = "rejected"

C16_Witness ==
  /\ KnowledgeDone
  /\ req.pc = "rejected"
  /\ req.taskType = TASK_TYPE_LIST
  /\ req.input.ids = <<"report", "delop">>
  /\ req.input.actions = <<>>
  /\ HasCap("KNOWLEDGE_KNUPDATE")

\* the record a call has built, the scope and the expected count it was
\* given (createListTask gives input.scope and ids.length)
HasTask == "task" \in DOMAIN req

GivenScope == IF req.pc = "created" THEN req.scope ELSE req.input.scope

GivenCount == IF req.pc = "created" THEN req.taskExpectedNumber ELSE Len(req.input.ids)

\* C17: createDefaultTask attaches scope, authorized_members and
\* authorized_authorities only when a scope is supplied; the members are
\* then the creating principal with admin rights for SETTINGS, KNOWLEDGE and
\* USER and nobody for any other scope, the authorities are the one
\* capability of each of the four scopes and none for any other scope; the
\* record starts not completed, with no processed element, no error and the
\* expected count given (ids.length for createListTask)
C17_DefaultTaskRecord ==
  HasTask =>
    LET task == req.task
        rights == {"scope", "authorized_members", "authorized_authorities"}
    IN /\ IF GivenScope = NoScope
          THEN rights \cap DOMAIN task = {}
          ELSE /\ rights \subseteq DOMAIN task
               /\ task.scope = GivenScope
               /\ task.authorized_members =
                    IF GivenScope \in {"SETTINGS", "KNOWLEDGE", "USER"}
                    THEN <<[id |-> req.user.id, access_right |-> "admin"]>>
                    ELSE <<>>
               /\ task.authorized_authorities =
                    CASE GivenScope = "SETTINGS" -> <<"SETTINGS_SETLABELS">>
                      [] GivenScope = "KNOWLEDGE" -> <<"KNOWLEDGE_KNUPDATE">>
                      [] GivenScope = "USER" -> <<"SETTINGS_SETACCESSES">>
                      [] GivenScope = "IMPORT" -> <<"KNOWLEDGE_KNASKIMPORT">>
                      [] OTHER -> <<>>
       /\ task.completed = FALSE
       /\ task.task_processed_number = 0
       /\ task.errors = <<>>
       /\ task.task_expected_number = GivenCount

C17_Witness ==
  /\ req.pc = "created"
  /\ req.scope = "IMPORT"
  /\ req.task.authorized_members = <<>>
  /\ req.task.authorized_authorities = <<"KNOWLEDGE_KNASKIMPORT">>
  /\ req.task.task_expected_number = MaxIds

\* C18: a successful createListTask does, in this order and once each, the
\* authorization check, the construction of the record with the actions and
\* ids of the input, the emission of the audit event and the persistence of
\* the record; when it returns the task both the event and the record exist
C18_CheckBuildAuditPersist ==
  /\ Len(audit) <= 1
  /\ Cardinality(index) <= 1
  /\ HasTask =>
       /\ CheckResult = Valid
       /\ req.task.actions = req.input.actions
       /\ req.task.task_ids = req.input.ids
  /\ audit # <<>> =>
       /\ HasTask
       /\ audit[1].context_data.input = req.task
  /\ index # {} =>
       /\ audit # <<>>
       /\ index = {[index |-> INDEX_INTERNAL_OBJECTS, doc |-> req.task]}
  /\ req.pc = "returned" => (Len(audit) = 1 /\ Cardinality(index) = 1)

C18_Witness ==
  /\ req.pc = "returned"
  /\ req.input.scope = "KNOWLEDGE"
  /\ req.input.ids = <<"report", "report">>
  /\ Len(audit) = 1
  /\ Cardinality(index) = 1

\* C19: the audit emission of createListTask does not block the task's
\* visibility: an authorized call that ends with no failure of elIndex has
\* persisted the record, also when publishUserAction failed
C19_AuditDoesNotBlockPersistence ==
  (req.pc \in {"returned", "failed"} /\ req.result # "elIndex threw") =>
    \E record \in index : record.doc = req.task

\* C20: within one execution of retentionHandler the rules are processed
\* one after the other in list order: while the handler is at rule k nothing
\* of a later rule has happened, every earlier rule has been fetched and
\* patched in this execution and its patch was made after an attempt on each
\* element of its batch, and rule k itself is not patched while it is current
C20_RulesStrictlySequential ==
  \A p \in Procs :
    hnd[p].cycle > 0 =>
      LET k == hnd[p].index
          done == obs[p].events
      IN /\ \A ev \in done : ev[1] <= k
         /\ \A j \in 1..(k - 1) :
              /\ {<<j, "fetch">>, <<j, "patch">>} \subseteq done
              /\ lastRun[j].cycle = hnd[p].cycle
              /\ lastRun[j].attempts = lastRun[j].batch
         /\ <<k, "patch">> \notin done
         /\ hnd[p].pc \in {"loop", "fetch"} => \A ev \in done : ev[1] < k
         /\ <<k, "delete">> \in done => <<k, "fetch">> \in done

C20_Witness ==
  \E p \in Procs :
    /\ hnd[p].pc = "delete"
    /\ hnd[p].index = 2
    /\ <<2, "delete">> \in obs[p].events
    /\ lastRun[1].cycle = hnd[p].cycle
    /\ lastRun[1].attempts = 2
    /\ lastRun[1].failed = 1

\* an element the claim promises to delete: stored, complete with all its
\* works complete, and its own deletion does not throw
Eligible(e) == e \in store /\ Deletable(elems[e]) /\ e \notin poison

\* C21: under repeated retention cycles with no new data every stored
\* element that is complete, has all its works complete and whose deletion
\* does not fail is eventually deleted, whatever stands before it in the
\* store's result order
C21_EligibleEventuallyDeleted ==
  \A e \in ElemIds : [](Eligible(e) => <>(e \notin store))

\* the user_id filters of the request (string or array key) and the users
\* they name
NamedUsers ==
  UNION {Range(f.values) : f \in {g \in Range(QueryFilters) : "user_id" \in Range(g.key.names)}}

\* C22: for scope User and task type QUERY a principal without the
\* manage-accesses capability is never allowed a request with a user_id
\* filter naming another user: every user_id filter of the request, not only
\* the first, has to be pinned to the principal's own id
C22_EveryUserFilterIsOwn ==
  (/\ UserQueryDone
   /\ ~HasCap("SETTINGS_SETACCESSES")
   /\ \E named \in NamedUsers : named # req.user.id) => req.pc = "rejected"

====
